---- MODULE Spec2Model ----
(***************************************************************************)
(* gungnir::List<A> (include/gungnir/List.hpp): an immutable singly-linked *)
(* list with structural sharing.                                           *)
(*                                                                         *)
(* The heap is modelled by two append-only sequences: `nodes` holds every  *)
(* List<A>::Node ever created (index = address), `elems` holds every       *)
(* element object created by std::make_shared<A> (index = address).  A     *)
(* Ptr<Node> / Ptr<A> is an index, Null is the empty shared_ptr.  A list   *)
(* handle is the pair (size_, node_).  Every public operation is an        *)
(* operator from a heap and its arguments to a heap and a result.          *)
(***************************************************************************)
EXTENDS Integers, Sequences, FiniteSets, TLC

\* nodes, elems: the heap.  handles: the List<A> objects of the program.
\* nested: its List<List<A>> objects.  last: the latest call, its receiver,
\* arguments and outcome, with the heap sizes before it.  ops: calls made.
\* cursors: the List<A>::StdIterator objects of the program.  endNil: the
\* function-static node of end().  rc: the use count of every node.
\* reclaimed: how often every node was destroyed.  threads: the threads.
VARIABLES nodes, elems, handles, nested, last, ops,
          cursors, endNil, rc, reclaimed, threads

vars == <<nodes, elems, handles, nested, last, ops,
          cursors, endNil, rc, reclaimed, threads>>

\* What the calls on List<A> leave alone
iterVars == <<cursors, endNil>>
ownerVars == <<rc, reclaimed, threads>>

\* Element values are 1..MaxVal.
MaxVal == 2
\* Longest argument pack given to the variadic constructor.
MaxLen == 3
\* Number of public calls made in one run.
MaxOps == 3
\* std::size_t is modelled as the integers modulo SizeMod.
SizeMod == 65536
\* Longest list handed to sorted.
MaxSort == 4
\* Longest List<List<A>> constructed, and longest list inside it.
MaxNest == 2
\* Longest range handed to the iterator-pair constructor.
MaxRange == 2
\* Number of List<List<A>> objects constructed in one run.
MaxNestedLists == 1

Null == 0

Values == 1..MaxVal

\* Arguments n / index / from / until: below, at and above every size built
\* by the constructors.
Sizes == 0..(MaxLen + 1)

Min(a, b) == IF a < b THEN a ELSE b

\* a - b on std::size_t
USub(a, b) == (a - b) % SizeMod

Heap == [nodes |-> nodes, elems |-> elems]

NoList == [size |-> 0, node |-> Null]

----------------------------------------------------------------------------
(* Node *)

\* Node::create(): a Node with empty head and empty tail.
createNil(h) ==
    [h |-> [h EXCEPT !.nodes = Append(@, [head |-> Null, tail |-> Null])],
     p |-> Len(h.nodes) + 1]

\* Node::create(head, tail)
createCons(h, hd, tl) ==
    [h |-> [h EXCEPT !.nodes = Append(@, [head |-> hd, tail |-> tl])],
     p |-> Len(h.nodes) + 1]

\* std::make_shared<const A>(x)
makeShared(h, x) ==
    [h |-> [h EXCEPT !.elems = Append(@, x)],
     p |-> Len(h.elems) + 1]

----------------------------------------------------------------------------
(* Private helpers of List *)

\* List(std::size_t size, Ptr<Node> node)
mkList(size, node) == [size |-> size, node |-> node]

\* foreachImpl: the heads visited from node n, in order, walking tail
\* pointers until a node with an empty head.
RECURSIVE foreachImpl(_, _)
foreachImpl(h, n) ==
    IF h.nodes[n].head = Null
    THEN <<>>
    ELSE <<h.nodes[n].head>> \o foreachImpl(h, h.nodes[n].tail)

\* toList(size, rbegin, rend, head): buf is the buffer in forward order; the
\* loop walks it from its last entry to its first, prepending each to head.
RECURSIVE toList(_, _, _, _)
toList(h, size, buf, hd) ==
    IF buf = <<>>
    THEN [h |-> h, l |-> mkList(size, hd)]
    ELSE LET c == createCons(h, buf[Len(buf)], hd)
         IN  toList(c.h, size, SubSeq(buf, 1, Len(buf) - 1), c.p)

\* toList(size, rbegin, rend) with the default argument head = Node::create()
toListNil(h, size, buf) ==
    LET n == createNil(h) IN toList(n.h, size, buf, n.p)

----------------------------------------------------------------------------
(* Constructors *)

\* List()
ListEmpty(h) ==
    LET n == createNil(h) IN [h |-> n.h, l |-> mkList(0, n.p)]

\* List(A x)
ListOne(h, x) ==
    LET e == makeShared(h, x)
        n == createNil(e.h)
        c == createCons(n.h, e.p, n.p)
    IN  [h |-> c.h, l |-> mkList(1, c.p)]

\* List(A head, List tail)
ListCons(h, x, tl) ==
    LET e == makeShared(h, x)
        c == createCons(e.h, e.p, tl.node)
    IN  [h |-> c.h, l |-> mkList(tl.size + 1, c.p)]

\* List(A head, Args&&... tail): List(head, List(tail...))
RECURSIVE ListVariadic(_, _)
ListVariadic(h, xs) ==
    IF Len(xs) = 1
    THEN ListOne(h, xs[1])
    ELSE LET t == ListVariadic(h, Tail(xs))
         IN  ListCons(t.h, Head(xs), t.l)

\* An input range [first, last) over the items xs.  An iterator holds the
\* item it points at (ok is FALSE for the end iterator); rest is what the
\* underlying source has not yet given out.
RangeEnd == [ok |-> FALSE, val |-> Null]

rangeBegin(xs) ==
    IF xs = <<>>
    THEN [it |-> RangeEnd, rest |-> <<>>]
    ELSE [it |-> [ok |-> TRUE, val |-> Head(xs)], rest |-> Tail(xs)]

\* ++it
rangeInc(it, rest) ==
    IF rest = <<>>
    THEN [it |-> RangeEnd, rest |-> <<>>]
    ELSE [it |-> [ok |-> TRUE, val |-> Head(rest)], rest |-> Tail(rest)]

\* std::distance(first, last) on a copy of first: increments the copy up to
\* last; n is the count and rest what the source is left with afterwards.
RECURSIVE distance(_, _)
distance(it, rest) ==
    IF ~it.ok
    THEN [n |-> 0, rest |-> rest]
    ELSE LET i == rangeInc(it, rest)
             d == distance(i.it, i.rest)
         IN  [n |-> d.n + 1, rest |-> d.rest]

\* for (; first != last; ++first) buf.emplace_back(make_shared<A>(*first))
RECURSIVE rangeLoop(_, _, _, _)
rangeLoop(h, it, rest, buf) ==
    IF ~it.ok
    THEN [h |-> h, buf |-> buf]
    ELSE LET e == makeShared(h, it.val)
             i == rangeInc(it, rest)
         IN  rangeLoop(e.h, i.it, i.rest, Append(buf, e.p))

\* List(InputIt first, InputIt last).  Copies of a multipass iterator walk
\* the range independently, so std::distance leaves the source as it was;
\* copies of a read-once iterator (std::istream_iterator) share the source,
\* which std::distance reads to its end.
ListRange(h, xs, multipass) ==
    LET b    == rangeBegin(xs)
        d    == distance(b.it, b.rest)
        rest == IF multipass THEN b.rest ELSE d.rest
        r    == rangeLoop(h, b.it, rest, <<>>)
    IN  toListNil(r.h, Len(r.buf), r.buf)

----------------------------------------------------------------------------
(* Accessors *)

isEmpty(l) == l.size = 0

size(l) == l.size

\* for (; k > 0; n = n->tail.get(), --k) {}
RECURSIVE advance(_, _, _)
advance(h, n, k) == IF k > 0 THEN advance(h, h.nodes[n].tail, k - 1) ELSE n

\* operator[] that accepts index == size()
index_OffByOne(h, l, i) ==
    IF i > size(l)
    THEN [h |-> h, threw |-> TRUE, v |-> Null]
    ELSE [h |-> h, threw |-> FALSE, v |-> h.nodes[advance(h, l.node, i)].head]

\* operator[](index): a reference to the element object at position index
index(h, l, i) ==
    IF i >= size(l)
    THEN [h |-> h, threw |-> TRUE, v |-> Null]
    ELSE [h |-> h, threw |-> FALSE, v |-> h.nodes[advance(h, l.node, i)].head]

\* head(): a reference to the element object of the first node
head(h, l) ==
    IF isEmpty(l)
    THEN [h |-> h, threw |-> TRUE, v |-> Null]
    ELSE [h |-> h, threw |-> FALSE, v |-> h.nodes[l.node].head]

\* tail that rebuilds the remaining elements instead of sharing the node
tail_Copy(h, l) ==
    IF l.size = 0
    THEN [h |-> h, threw |-> TRUE, l |-> NoList]
    ELSE LET buf == foreachImpl(h, h.nodes[l.node].tail)
             r   == toListNil(h, Len(buf), buf)
         IN  [h |-> r.h, threw |-> FALSE, l |-> r.l]

\* tail()
tail(h, l) ==
    IF isEmpty(l)
    THEN [h |-> h, threw |-> TRUE, l |-> NoList]
    ELSE [h |-> h, threw |-> FALSE,
          l |-> mkList(USub(size(l), 1), h.nodes[l.node].tail)]

\* The loop of take: buf.emplace_back(nd->head), n times
RECURSIVE takeLoop(_, _, _)
takeLoop(h, n, k) ==
    IF k > 0
    THEN <<h.nodes[n].head>> \o takeLoop(h, h.nodes[n].tail, k - 1)
    ELSE <<>>

\* take that stops one element late
take_OneMore(h, l, n) ==
    LET buf == takeLoop(h, l.node, Min(n + 1, size(l)))
    IN  toListNil(h, Len(buf), buf)

\* take that copies each element value into a new element object
RECURSIVE copyLoop(_, _)
copyLoop(h, xs) ==
    IF xs = <<>>
    THEN [h |-> h, buf |-> <<>>]
    ELSE LET e == makeShared(h, h.elems[Head(xs)])
             r == copyLoop(e.h, Tail(xs))
         IN  [h |-> r.h, buf |-> <<e.p>> \o r.buf]

take_Copy(h, l, n) ==
    LET b == copyLoop(h, takeLoop(h, l.node, Min(n, size(l))))
    IN  toListNil(b.h, Len(b.buf), b.buf)

\* take(n)
take(h, l, n) ==
    LET buf == takeLoop(h, l.node, Min(n, size(l)))
    IN  toListNil(h, Len(buf), buf)

\* uncons(): the pair (head(), tail())
uncons(h, l) ==
    IF isEmpty(l)
    THEN [h |-> h, threw |-> TRUE, v |-> Null, l |-> NoList]
    ELSE LET hd == head(h, l)
             tl == tail(hd.h, l)
         IN  [h |-> tl.h, threw |-> hd.threw \/ tl.threw, v |-> hd.v, l |-> tl.l]

\* last()
lastOf(h, l) ==
    IF isEmpty(l)
    THEN [h |-> h, threw |-> TRUE, v |-> Null]
    ELSE index(h, l, USub(size(l), 1))

\* init without the emptiness check
init_NoCheck(h, l) ==
    LET r == take(h, l, USub(size(l), 1))
    IN  [h |-> r.h, threw |-> FALSE, l |-> r.l]

\* init()
init(h, l) ==
    IF isEmpty(l)
    THEN [h |-> h, threw |-> TRUE, l |-> NoList]
    ELSE LET r == take(h, l, USub(size(l), 1))
         IN  [h |-> r.h, threw |-> FALSE, l |-> r.l]

----------------------------------------------------------------------------
(* Transformations *)

\* A predicate on A: p(x) is (x \in set) when pos, its negation otherwise.
Preds == [set : SUBSET Values, pos : {TRUE}]

P(p, x) == (x \in p.set) = p.pos

\* [&p](const A& x) { return !p(x); }
Not(p) == [p EXCEPT !.pos = ~@]

\* The loop of map: buf.emplace_back(std::make_shared<const B>(ff(*x))).
\* calls holds the element objects f was invoked on, in the order of the
\* invocations.
RECURSIVE mapLoop(_, _, _)
mapLoop(h, xs, f) ==
    IF xs = <<>>
    THEN [h |-> h, buf |-> <<>>, calls |-> <<>>]
    ELSE LET e == makeShared(h, f[h.elems[Head(xs)]])
             r == mapLoop(e.h, Tail(xs), f)
         IN  [h |-> r.h, buf |-> <<e.p>> \o r.buf,
              calls |-> <<Head(xs)>> \o r.calls]

\* The loop of map_FromTail: applies f to the last element first
RECURSIVE mapLoopFromTail(_, _, _)
mapLoopFromTail(h, xs, f) ==
    IF xs = <<>>
    THEN [h |-> h, buf |-> <<>>, calls |-> <<>>]
    ELSE LET r == mapLoopFromTail(h, Tail(xs), f)
             e == makeShared(r.h, f[h.elems[Head(xs)]])
         IN  [h |-> e.h, buf |-> <<e.p>> \o r.buf,
              calls |-> Append(r.calls, Head(xs))]

\* map that applies f while it builds the result from the tail
map_FromTail(h, l, f) ==
    LET b == mapLoopFromTail(h, foreachImpl(h, l.node), f)
        r == toListNil(b.h, size(l), b.buf)
    IN  [h |-> r.h, l |-> r.l, calls |-> b.calls]

\* map(f)
map(h, l, f) ==
    LET b == mapLoop(h, foreachImpl(h, l.node), f)
        r == toListNil(b.h, size(l), b.buf)
    IN  [h |-> r.h, l |-> r.l, calls |-> b.calls]

\* filter that keeps the elements violating p
filter_Negated(h, l, p) ==
    LET buf == SelectSeq(foreachImpl(h, l.node), LAMBDA x : ~P(p, h.elems[x]))
    IN  toListNil(h, Len(buf), buf)

\* filter(p)
filter(h, l, p) ==
    LET buf == SelectSeq(foreachImpl(h, l.node), LAMBDA x : P(p, h.elems[x]))
    IN  toListNil(h, Len(buf), buf)

\* filterNot that hands p itself to filter
filterNot_NoNegation(h, l, p) == filter(h, l, p)

\* filterNot(p)
filterNot(h, l, p) == filter(h, l, Not(p))

\* The loop of reverse: hd = Node::create(x, std::move(hd))
RECURSIVE reverseLoop(_, _, _)
reverseLoop(h, xs, hd) ==
    IF xs = <<>>
    THEN [h |-> h, p |-> hd]
    ELSE LET c == createCons(h, Head(xs), hd)
         IN  reverseLoop(c.h, Tail(xs), c.p)

\* reverse that buffers the elements and rebuilds them with toList
reverse_Buffered(h, l) ==
    toListNil(h, size(l), foreachImpl(h, l.node))

\* The Cons nodes from n to the terminating node
RECURSIVE consNodes(_, _)
consNodes(h, n) ==
    IF h.nodes[n].head = Null
    THEN <<>>
    ELSE <<n>> \o consNodes(h, h.nodes[n].tail)

\* reverse that relinks the tail pointers of the source's own nodes
reverse_InPlace(h, l) ==
    LET n  == createNil(h)
        ch == consNodes(h, l.node)
        k  == Len(ch)
        at(i) == CHOOSE j \in 1..k : ch[j] = i
        ns == [i \in DOMAIN n.h.nodes |->
                 IF \E j \in 1..k : ch[j] = i
                 THEN [head |-> h.nodes[i].head,
                       tail |-> IF at(i) = 1 THEN n.p ELSE ch[at(i) - 1]]
                 ELSE n.h.nodes[i]]
    IN  [h |-> [n.h EXCEPT !.nodes = ns],
         l |-> mkList(size(l), IF k = 0 THEN n.p ELSE ch[k])]

\* reverse()
reverse(h, l) ==
    LET n == createNil(h)
        r == reverseLoop(n.h, foreachImpl(h, l.node), n.p)
    IN  [h |-> r.h, l |-> mkList(size(l), r.p)]

\* The loop of takeWhile: while (n->head && p(*(n->head)))
RECURSIVE takeWhileLoop(_, _, _)
takeWhileLoop(h, n, p) ==
    IF h.nodes[n].head # Null /\ P(p, h.elems[h.nodes[n].head])
    THEN <<h.nodes[n].head>> \o takeWhileLoop(h, h.nodes[n].tail, p)
    ELSE <<>>

\* takeWhile(p)
takeWhile(h, l, p) ==
    LET buf == takeWhileLoop(h, l.node, p)
    IN  toListNil(h, Len(buf), buf)

\* drop that rebuilds the remaining elements instead of sharing the node
drop_Copy(h, l, n) ==
    IF n >= size(l)
    THEN ListEmpty(h)
    ELSE LET buf == foreachImpl(h, advance(h, l.node, n))
         IN  toListNil(h, Len(buf), buf)

\* drop(n)
drop(h, l, n) ==
    IF n >= size(l)
    THEN ListEmpty(h)
    ELSE [h |-> h, l |-> mkList(USub(size(l), n), advance(h, l.node, n))]

\* takeRight that subtracts n itself from the size
takeRight_Wrap(h, l, n) == drop(h, l, USub(size(l), n))

\* takeRight(n)
takeRight(h, l, n) == drop(h, l, USub(size(l), Min(n, size(l))))

\* dropRight(n)
dropRight(h, l, n) == take(h, l, USub(size(l), Min(n, size(l))))

\* The loop of dropWhile: --s, pn = &(*pn)->tail while the head satisfies p
RECURSIVE dropWhileLoop(_, _, _, _)
dropWhileLoop(h, s, n, p) ==
    IF h.nodes[n].head # Null /\ P(p, h.elems[h.nodes[n].head])
    THEN dropWhileLoop(h, USub(s, 1), h.nodes[n].tail, p)
    ELSE mkList(s, n)

\* dropWhile that returns the source's size with the advanced node
dropWhile_StaleSize(h, l, p) ==
    [h |-> h,
     l |-> mkList(size(l), dropWhileLoop(h, size(l), l.node, p).node)]

\* dropWhile(p)
dropWhile(h, l, p) == [h |-> h, l |-> dropWhileLoop(h, size(l), l.node, p)]

\* slice(from, until)
slice(h, l, from, until) ==
    IF from >= until
    THEN ListEmpty(h)
    ELSE LET d == drop(h, l, from)
         IN  take(d.h, d.l, USub(until, from))

\* prepend(args...)
prepend(h, l, x) ==
    LET e == makeShared(h, x)
        c == createCons(e.h, e.p, l.node)
    IN  [h |-> c.h, l |-> mkList(size(l) + 1, c.p)]

\* concat without the shortcut for an empty operand
concat_NoShortcut(h, l, that) ==
    toList(h, size(l) + size(that), foreachImpl(h, l.node), that.node)

\* concat(that)
concat(h, l, that) ==
    IF isEmpty(l) THEN [h |-> h, l |-> that]
    ELSE IF isEmpty(that) THEN [h |-> h, l |-> l]
    ELSE toList(h, size(l) + size(that), foreachImpl(h, l.node), that.node)

\* updated that rebuilds the elements after index as well
updated_RebuildAll(h, l, i, x) ==
    IF i >= size(l)
    THEN [h |-> h, threw |-> TRUE, l |-> NoList]
    ELSE LET e   == makeShared(h, x)
             all == foreachImpl(h, l.node)
             buf == [k \in 1..Len(all) |-> IF k = i + 1 THEN e.p ELSE all[k]]
             r   == toListNil(e.h, size(l), buf)
         IN  [h |-> r.h, threw |-> FALSE, l |-> r.l]

\* updated that constructs the replacement node before checking the index
updated_BuildFirst(h, l, i, x) ==
    LET e == makeShared(h, x)
        n == advance(h, l.node, Min(i, size(l)))
        c == createCons(e.h, e.p, h.nodes[n].tail)
    IN  IF i >= size(l)
        THEN [h |-> c.h, threw |-> TRUE, l |-> NoList]
        ELSE LET r == toList(c.h, size(l), takeLoop(h, l.node, i), c.p)
             IN  [h |-> r.h, threw |-> FALSE, l |-> r.l]

\* updated(index, args...)
updated(h, l, i, x) ==
    IF i >= size(l)
    THEN [h |-> h, threw |-> TRUE, l |-> NoList]
    ELSE LET buf == takeLoop(h, l.node, i)
             n   == advance(h, l.node, i)
             e   == makeShared(h, x)
             c   == createCons(e.h, e.p, h.nodes[n].tail)
             r   == toList(c.h, size(l), buf, c.p)
         IN  [h |-> r.h, threw |-> FALSE, l |-> r.l]

\* The loops of flatMap: for each x, f(*x).foreachImpl appends to buf.  f
\* maps a value to the list it returns.
RECURSIVE flatMapLoop(_, _, _)
flatMapLoop(h, xs, f) ==
    IF xs = <<>>
    THEN <<>>
    ELSE foreachImpl(h, f[h.elems[Head(xs)]].node) \o flatMapLoop(h, Tail(xs), f)

\* flatMap(f)
flatMap(h, l, f) ==
    LET buf == flatMapLoop(h, foreachImpl(h, l.node), f)
    IN  toListNil(h, Len(buf), buf)

\* The loops of flatten: for each element list ys, ys->foreachImpl appends
\* to buf.
RECURSIVE flattenLoop(_, _)
flattenLoop(h, xs) ==
    IF xs = <<>>
    THEN <<>>
    ELSE foreachImpl(h, h.elems[Head(xs)].node) \o flattenLoop(h, Tail(xs))

\* flatten(), on a List<List<B>>
flatten(h, l) ==
    LET buf == flattenLoop(h, foreachImpl(h, l.node))
    IN  toListNil(h, Len(buf), buf)

----------------------------------------------------------------------------
(* Queries *)

\* A query returns its answer v and the element objects its test was
\* invoked on, in the order of the invocations.
Answer(v, calls) == [v |-> v, calls |-> calls]

\* The loop of exists: returns at the first element that satisfies p
RECURSIVE existsLoop(_, _, _, _)
existsLoop(h, n, p, calls) ==
    IF h.nodes[n].head = Null THEN Answer(FALSE, calls)
    ELSE IF P(p, h.elems[h.nodes[n].head])
    THEN Answer(TRUE, Append(calls, h.nodes[n].head))
    ELSE existsLoop(h, h.nodes[n].tail, p, Append(calls, h.nodes[n].head))

\* exists that tests every element before it answers
exists_NoShortCircuit(h, l, p) ==
    LET es == foreachImpl(h, l.node)
    IN  Answer(\E i \in 1..Len(es) : P(p, h.elems[es[i]]), es)

\* exists(p)
exists(h, l, p) == existsLoop(h, l.node, p, <<>>)

\* The loop of forall: returns at the first element that violates p
RECURSIVE forallLoop(_, _, _, _)
forallLoop(h, n, p, calls) ==
    IF h.nodes[n].head = Null THEN Answer(TRUE, calls)
    ELSE IF ~P(p, h.elems[h.nodes[n].head])
    THEN Answer(FALSE, Append(calls, h.nodes[n].head))
    ELSE forallLoop(h, h.nodes[n].tail, p, Append(calls, h.nodes[n].head))

\* forall(p)
forall(h, l, p) == forallLoop(h, l.node, p, <<>>)

\* The body handed to foreachImpl by count: tests y and increments num.
\* The test is a predicate p; `*y == x` is the predicate "is in {x}".
RECURSIVE countLoop(_, _, _, _, _)
countLoop(h, ys, p, num, calls) ==
    IF ys = <<>>
    THEN Answer(num, calls)
    ELSE countLoop(h, Tail(ys), p,
                   IF P(p, h.elems[Head(ys)]) THEN (num + 1) % SizeMod
                                              ELSE num,
                   Append(calls, Head(ys)))

\* count(const A& x)
count(h, l, x) ==
    countLoop(h, foreachImpl(h, l.node), [set |-> {x}, pos |-> TRUE], 0,
              <<>>)

\* count(Fn p)
countIf(h, l, p) == countLoop(h, foreachImpl(h, l.node), p, 0, <<>>)

----------------------------------------------------------------------------
(* Folds, scans, reductions *)

\* The binary operators handed to the folds; all are closed over Values.
\*   "add": addition modulo MaxVal (associative, commutative)
\*   "sub": subtraction modulo MaxVal (neither)
\*   "fst": the left operand
BinOps == {"add", "sub", "fst"}

Apply(op, a, b) ==
    CASE op = "add" -> ((a + b - 1) % MaxVal) + 1
      [] op = "sub" -> ((a - b) % MaxVal) + 1
      [] op = "fst" -> a

\* The loop of foldLeft: z = op(std::move(z), *x)
RECURSIVE foldLeftLoop(_, _, _, _)
foldLeftLoop(h, xs, z, op) ==
    IF xs = <<>> THEN z
    ELSE foldLeftLoop(h, Tail(xs), Apply(op, z, h.elems[Head(xs)]), op)

\* foldLeft(z, op)
foldLeft(h, l, z, op) == foldLeftLoop(h, foreachImpl(h, l.node), z, op)

\* The loop of foldRight / reduceRight: z = op(**it, std::move(z)), from the
\* last buffered element to the first
RECURSIVE foldRightLoop(_, _, _, _)
foldRightLoop(h, buf, z, op) ==
    IF buf = <<>> THEN z
    ELSE foldRightLoop(h, SubSeq(buf, 1, Len(buf) - 1),
                       Apply(op, h.elems[buf[Len(buf)]], z), op)

\* foldRight(z, op)
foldRight(h, l, z, op) == foldRightLoop(h, foreachImpl(h, l.node), z, op)

\* reduceLeft(op)
reduceLeft(h, l, op) ==
    IF isEmpty(l)
    THEN [h |-> h, threw |-> TRUE, v |-> Null]
    ELSE LET tl == tail(h, l)
             hd == head(tl.h, l)
         IN  IF tl.threw \/ hd.threw
             THEN [h |-> hd.h, threw |-> TRUE, v |-> Null]
             ELSE [h |-> hd.h, threw |-> FALSE,
                   v |-> foldLeft(hd.h, tl.l, hd.h.elems[hd.v], op)]

\* reduce(op)
reduce(h, l, op) ==
    IF isEmpty(l)
    THEN [h |-> h, threw |-> TRUE, v |-> Null]
    ELSE reduceLeft(h, l, op)

\* reduceRight(op)
reduceRight(h, l, op) ==
    IF isEmpty(l)
    THEN [h |-> h, threw |-> TRUE, v |-> Null]
    ELSE LET buf == foreachImpl(h, l.node)
         IN  [h |-> h, threw |-> FALSE,
              v |-> foldRightLoop(h, SubSeq(buf, 1, Len(buf) - 1),
                                  h.elems[buf[Len(buf)]], op)]

\* The loop of scanLeft:
\* acc.emplace_back(std::make_shared<B>(op(*acc.back(), *x)))
RECURSIVE scanLeftLoop(_, _, _, _)
scanLeftLoop(h, xs, acc, op) ==
    IF xs = <<>>
    THEN [h |-> h, buf |-> acc]
    ELSE LET e == makeShared(h, Apply(op, h.elems[acc[Len(acc)]],
                                      h.elems[Head(xs)]))
         IN  scanLeftLoop(e.h, Tail(xs), Append(acc, e.p), op)

\* scanLeft(z, op)
scanLeft(h, l, z, op) ==
    LET e == makeShared(h, z)
        r == scanLeftLoop(e.h, foreachImpl(h, l.node), <<e.p>>, op)
    IN  toListNil(r.h, size(l) + 1, r.buf)

\* The loop of scanRight: from the last buffered element to the first,
\* hd = BN::create(make_shared<B>(op(**it, *hd->head)), hd)
RECURSIVE scanRightLoop(_, _, _, _)
scanRightLoop(h, buf, hd, op) ==
    IF buf = <<>>
    THEN [h |-> h, p |-> hd]
    ELSE LET e == makeShared(h, Apply(op, h.elems[buf[Len(buf)]],
                                      h.elems[h.nodes[hd].head]))
             c == createCons(e.h, e.p, hd)
         IN  scanRightLoop(c.h, SubSeq(buf, 1, Len(buf) - 1), c.p, op)

\* scanRight(z, op)
scanRight(h, l, z, op) ==
    LET e == makeShared(h, z)
        n == createNil(e.h)
        c == createCons(n.h, e.p, n.p)
        r == scanRightLoop(c.h, foreachImpl(h, l.node), c.p, op)
    IN  [h |-> r.h, l |-> mkList(size(l) + 1, r.p)]

----------------------------------------------------------------------------
(* Ordering *)

\* The comparators handed to sorted: operator< and its converse.
Lts == {"less", "greater"}

Lt(lt, x, y) == IF lt = "less" THEN x < y ELSE x > y

\* What std::sort (stable = FALSE) or std::stable_sort (stable = TRUE) may
\* leave in buf, as orderings of the positions S of buf still to be placed:
\* the next entry is one that no remaining entry is less than; a stable sort
\* takes the earliest such entry, an unstable sort any of them that are
\* equivalent under lt.
RECURSIVE sortOrders(_, _, _, _, _)
sortOrders(h, buf, S, lt, stable) ==
    IF S = {}
    THEN {<<>>}
    ELSE LET v(i) == h.elems[buf[i]]
             least == {i \in S : \A j \in S : ~Lt(lt, v(j), v(i))}
             first == IF stable
                      THEN {i \in least : \A j \in least : i <= j}
                      ELSE least
         IN  UNION {{<<i>> \o o : o \in sortOrders(h, buf, S \ {i}, lt, stable)}
                        : i \in first}

sortOutcomes(h, buf, lt, stable) ==
    {[k \in 1..Len(buf) |-> buf[o[k]]] :
        o \in sortOrders(h, buf, 1..Len(buf), lt, stable)}

\* sorted(lt, stable): one result per outcome of the sort
sorted(h, l, lt, stable) ==
    {toListNil(h, size(l), b) :
        b \in sortOutcomes(h, foreachImpl(h, l.node), lt, stable)}

----------------------------------------------------------------------------
(* Equality *)

\* The loop of operator==: walks both chains while the first has an element;
\* returns at the first pair of unequal values.  cmps counts the element
\* comparisons made.
RECURSIVE equalsLoop(_, _, _, _)
equalsLoop(h, n1, n2, cmps) ==
    IF h.nodes[n1].head = Null
    THEN [v |-> TRUE, cmps |-> cmps]
    ELSE IF h.elems[h.nodes[n1].head] # h.elems[h.nodes[n2].head]
    THEN [v |-> FALSE, cmps |-> cmps + 1]
    ELSE equalsLoop(h, h.nodes[n1].tail, h.nodes[n2].tail, cmps + 1)

\* operator== that compares the element objects instead of their values
RECURSIVE equals_ByPointer(_, _, _, _)
equals_ByPointer(h, l, that, same) ==
    IF same THEN [v |-> TRUE, cmps |-> 0]
    ELSE IF size(l) # size(that) THEN [v |-> FALSE, cmps |-> 0]
    ELSE IF h.nodes[l.node].head = Null THEN [v |-> TRUE, cmps |-> 0]
    ELSE IF h.nodes[l.node].head # h.nodes[that.node].head
    THEN [v |-> FALSE, cmps |-> 1]
    ELSE LET r == equals_ByPointer(
                      h, mkList(size(l) - 1, h.nodes[l.node].tail),
                      mkList(size(that) - 1, h.nodes[that.node].tail), FALSE)
         IN  [v |-> r.v, cmps |-> r.cmps + 1]

\* operator==(that); same is (this == &that)
equals(h, l, that, same) ==
    IF same THEN [v |-> TRUE, cmps |-> 0]
    ELSE IF size(l) # size(that) THEN [v |-> FALSE, cmps |-> 0]
    ELSE equalsLoop(h, l.node, that.node, 0)

\* operator!=(that)
notEquals(h, l, that, same) ==
    LET r == equals(h, l, that, same) IN [v |-> ~r.v, cmps |-> r.cmps]

----------------------------------------------------------------------------
(* Ownership: Ptr<Node> is std::shared_ptr<const Node> *)

\* The control blocks: c.rc[n] is the use count of node n, c.reclaimed[n]
\* the number of times ~Node ran on it.
Counts == [rc |-> rc, reclaimed |-> reclaimed]

\* Copying a Ptr<Node> that points at n
retain(c, n) ==
    IF n = Null THEN c ELSE [c EXCEPT !.rc[n] = @ + 1]

\* release that destroys the node but not the tail pointer it holds
release_NoCascade(c, ns, n) ==
    IF n = Null
    THEN c
    ELSE IF c.rc[n] > 1
    THEN [c EXCEPT !.rc[n] = @ - 1]
    ELSE [c EXCEPT !.rc[n] = 0, !.reclaimed[n] = @ + 1]

\* Destroying a Ptr<Node> that points at n: the last owner destroys the
\* node, and with it the node's tail pointer.
RECURSIVE release(_, _, _)
release(c, ns, n) ==
    IF n = Null
    THEN c
    ELSE IF c.rc[n] > 1
    THEN [c EXCEPT !.rc[n] = @ - 1]
    ELSE release([c EXCEPT !.rc[n] = 0, !.reclaimed[n] = @ + 1],
                 ns, ns[n].tail)

\* Node::create made the nodes k..Len(ns): std::make_shared hands each to
\* one temporary Ptr<Node>.
RECURSIVE created(_, _, _)
created(c, ns, k) ==
    IF k > Len(ns)
    THEN c
    ELSE created([rc |-> Append(c.rc, 1),
                  reclaimed |-> Append(c.reclaimed, 0)], ns, k + 1)

\* Each of the nodes k..Len(ns) holds a Ptr<Node> to its tail.
RECURSIVE tailsRetained(_, _, _)
tailsRetained(c, ns, k) ==
    IF k > Len(ns)
    THEN c
    ELSE tailsRetained(retain(c, ns[k].tail), ns, k + 1)

\* The temporaries that held the nodes k..Len(ns) are destroyed.
RECURSIVE temporariesReleased(_, _, _)
temporariesReleased(c, ns, k) ==
    IF k > Len(ns)
    THEN c
    ELSE temporariesReleased(release(c, ns, k), ns, k + 1)

\* The counts after a call that left the heap h2 and returned the list l:
\* the new nodes own their tails, the returned handle owns its root, and
\* the call's temporaries are gone.
returned(c, h2, l) ==
    LET k  == Len(c.rc) + 1
        c1 == tailsRetained(created(c, h2.nodes, k), h2.nodes, k)
    IN  temporariesReleased(retain(c1, l.node), h2.nodes, k)

\* List(const List&): copies size_ and node_
copyConstruct(c, l) == [c |-> retain(c, l.node), l |-> l]

\* List(List&&): moves node_ out of l and leaves the null pointer behind
moveConstruct(c, l) ==
    [c |-> c, l |-> l, from |-> [size |-> l.size, node |-> Null]]

\* operator=(const List&) on the handle old: the new node is retained before
\* the old one is released.
copyAssign(c, ns, old, l) ==
    [c |-> release(retain(c, l.node), ns, old.node), l |-> l]

\* operator=(List&&) on the handle old
moveAssign(c, ns, old, l) ==
    [c |-> release(c, ns, old.node), l |-> l,
     from |-> [size |-> l.size, node |-> Null]]

\* ~List()
destroy(c, ns, l) == release(c, ns, l.node)

\* release that takes every owner for the last one
lastOwner_Always(c, n) == TRUE

\* The atomic decrement of the use count of n tells the owner that held the
\* last reference: the count was 1 before it.
lastOwner(c, n) == c.rc[n] = 1

\* The atomic decrement itself
decrement(c, n) == [c EXCEPT !.rc[n] = @ - 1]

\* ~Node on n, run by the last owner
reclaim(c, n) == [c EXCEPT !.reclaimed[n] = @ + 1]

----------------------------------------------------------------------------
(* StdIterator: a cursor is the raw Node pointer node_ *)

\* begin()
begin(l) == [node |-> l.node]

\* end(): nil is the function-static node, created by the first call
end(h, nil) ==
    IF nil = Null
    THEN LET c == createNil(h)
         IN  [h |-> c.h, nil |-> c.p, it |-> [node |-> c.p]]
    ELSE [h |-> h, nil |-> nil, it |-> [node |-> nil]]

\* begin() that keeps a Ptr<Node> to the node in the cursor
beginCounts_Owning(c, l) == retain(c, l.node)

\* The use counts after begin(): node_.get() is a raw pointer, and
\* StdIterator stores it in a const Node*, so no count changes.
beginCounts(c, l) == c

\* StdIterator::operator==
iterEquals(h, a, b) == h.nodes[a.node].head = h.nodes[b.node].head

\* StdIterator::operator!=
iterNotEquals(h, a, b) == h.nodes[a.node].head # h.nodes[b.node].head

\* StdIterator::operator++
iterInc(h, a) == [node |-> h.nodes[a.node].tail]

----------------------------------------------------------------------------
(* Pairing *)

\* The loop of zip:
\* buf.emplace_back(std::make_shared<AB>(*(n1->head), *(n2->head)))
RECURSIVE zipLoop(_, _, _, _)
zipLoop(h, n1, n2, s) ==
    IF s > 0
    THEN LET e == makeShared(h, <<h.elems[h.nodes[n1].head],
                                  h.elems[h.nodes[n2].head]>>)
             r == zipLoop(e.h, h.nodes[n1].tail, h.nodes[n2].tail, s - 1)
         IN  [h |-> r.h, buf |-> <<e.p>> \o r.buf]
    ELSE [h |-> h, buf |-> <<>>]

\* zip(that)
zip(h, l, that) ==
    LET b == zipLoop(h, l.node, that.node, Min(size(l), size(that)))
    IN  toListNil(b.h, Len(b.buf), b.buf)

----------------------------------------------------------------------------
(* The program: a sequence of public calls on the lists built so far *)

\* The argument packs of the variadic constructor
Packs == UNION {[1..k -> Values] : k \in 1..MaxLen}

NoCall ==
    [op |-> "none", recv |-> NoList, that |-> NoList, arg |-> <<>>,
     threw |-> FALSE, res |-> NoList, val |-> Null, n0 |-> 0, e0 |-> 0]

Init ==
    /\ nodes = <<>>
    /\ elems = <<>>
    /\ handles = <<>>
    /\ nested = <<>>
    /\ last = NoCall
    /\ ops = 0
    /\ cursors = <<>>
    /\ endNil = Null
    /\ rc = <<>>
    /\ reclaimed = <<>>
    /\ threads = <<>>

\* The call `name` on recv (and that) with arguments arg ended: it left the
\* heap h2 and either threw or returned the list res / the value val.  A
\* returned List<A> is kept in handles when keep is TRUE.
Return(name, recv, that, arg, h2, threw, res, val, keep) ==
    /\ UNCHANGED <<nested, iterVars, ownerVars>>
    /\ ops' = ops + 1
    /\ nodes' = h2.nodes
    /\ elems' = h2.elems
    /\ handles' = IF keep /\ ~threw THEN Append(handles, res) ELSE handles
    /\ last' = [op |-> name, recv |-> recv, that |-> that, arg |-> arg,
                threw |-> threw, res |-> res, val |-> val,
                n0 |-> Len(nodes), e0 |-> Len(elems)]

ReturnList(name, recv, that, arg, r) ==
    Return(name, recv, that, arg, r.h, FALSE, r.l, Null, TRUE)

ReturnListOrThrow(name, recv, arg, r) ==
    Return(name, recv, NoList, arg, r.h, r.threw, r.l, Null, TRUE)

ReturnValueOrThrow(name, recv, arg, r) ==
    Return(name, recv, NoList, arg, r.h, r.threw, NoList, r.v, FALSE)

Lists == {handles[i] : i \in DOMAIN handles}

\* A run makes at most MaxOps calls.
CanCall == ops < MaxOps

CallListEmpty ==
    /\ CanCall
    /\ ReturnList("List", NoList, NoList, <<>>, ListEmpty(Heap))

CallListVariadic ==
    /\ CanCall
    /\ \E xs \in Packs :
           ReturnList("List", NoList, NoList, xs, ListVariadic(Heap, xs))

\* The items of the ranges handed to List(first, last)
RangePacks == UNION {[1..k -> Values] : k \in 0..MaxRange}

CallListRange ==
    /\ CanCall
    /\ \E xs \in RangePacks, multipass \in BOOLEAN :
           ReturnList("ListRange", NoList, NoList, <<xs, multipass>>,
                      ListRange(Heap, xs, multipass))

CallListCons ==
    /\ CanCall
    /\ \E x \in Values, tl \in Lists :
           ReturnList("ListCons", NoList, tl, x, ListCons(Heap, x, tl))

\* The argument packs of List<List<A>>(List<A>(...), ...): each entry is the
\* argument pack of one inner list (empty for List<A>()).
InnerPacks == UNION {[1..k -> Values] : k \in 0..MaxNest}

NestedPacks == UNION {[1..k -> InnerPacks] : k \in 1..MaxNest}

\* The orders in which the n arguments of a call may be evaluated: the
\* language leaves the order unspecified, and each argument is evaluated
\* whole before the next one starts.
Orders(n) ==
    {o \in [1..n -> 1..n] : \A i, j \in 1..n : o[i] = o[j] => i = j}

\* The temporaries List<A>(xs...) of such an expression, constructed in the
\* order `order` (a sequence of argument positions); ls holds the
\* temporaries constructed so far, by position.
RECURSIVE innerListsLoop(_, _, _, _)
innerListsLoop(h, xss, order, ls) ==
    IF order = <<>>
    THEN [h |-> h, ls |-> ls]
    ELSE LET k == Head(order)
             r == IF xss[k] = <<>>
                  THEN ListEmpty(h)
                  ELSE ListVariadic(h, xss[k])
         IN  innerListsLoop(r.h, xss, Tail(order), [ls EXCEPT ![k] = r.l])

innerLists(h, xss, order) ==
    innerListsLoop(h, xss, order, [k \in 1..Len(xss) |-> NoList])

\* List<List<A>>(List<A>(...), ...)
CallListNested ==
    /\ CanCall
    /\ Len(nested) < MaxNestedLists
    /\ \E xss \in NestedPacks : \E order \in Orders(Len(xss)) :
           LET i == innerLists(Heap, xss, order)
               r == ListVariadic(i.h, i.ls)
           IN  /\ ops' = ops + 1
               /\ nodes' = r.h.nodes
               /\ elems' = r.h.elems
               /\ nested' = Append(nested, r.l)
               /\ last' = [NoCall EXCEPT !.op = "ListNested", !.arg = xss,
                                         !.res = r.l, !.n0 = Len(nodes),
                                         !.e0 = Len(elems)]
               /\ UNCHANGED <<handles, iterVars, ownerVars>>

CallFlatten ==
    /\ CanCall
    /\ \E l \in {nested[i] : i \in DOMAIN nested} :
           ReturnList("flatten", l, NoList, <<>>, flatten(Heap, l))

CallHead ==
    /\ CanCall
    /\ \E l \in Lists : ReturnValueOrThrow("head", l, <<>>, head(Heap, l))

CallTail ==
    /\ CanCall
    /\ \E l \in Lists : ReturnListOrThrow("tail", l, <<>>, tail(Heap, l))

CallUncons ==
    /\ CanCall
    /\ \E l \in Lists :
           LET r == uncons(Heap, l)
           IN  Return("uncons", l, NoList, <<>>, r.h, r.threw, r.l, r.v, TRUE)

CallLast ==
    /\ CanCall
    /\ \E l \in Lists : ReturnValueOrThrow("last", l, <<>>, lastOf(Heap, l))

CallInit ==
    /\ CanCall
    /\ \E l \in Lists : ReturnListOrThrow("init", l, <<>>, init(Heap, l))

CallIndex ==
    /\ CanCall
    /\ \E l \in Lists, i \in Sizes :
           ReturnValueOrThrow("index", l, i, index(Heap, l, i))

CallExists ==
    /\ CanCall
    /\ \E l \in Lists, p \in Preds :
           Return("exists", l, NoList, p, Heap, FALSE, NoList,
                  exists(Heap, l, p), FALSE)

CallForall ==
    /\ CanCall
    /\ \E l \in Lists, p \in Preds :
           Return("forall", l, NoList, p, Heap, FALSE, NoList,
                  forall(Heap, l, p), FALSE)

CallCount ==
    /\ CanCall
    /\ \E l \in Lists, x \in Values :
           Return("count", l, NoList, x, Heap, FALSE, NoList,
                  count(Heap, l, x), FALSE)

CallCountIf ==
    /\ CanCall
    /\ \E l \in Lists, p \in Preds :
           Return("countIf", l, NoList, p, Heap, FALSE, NoList,
                  countIf(Heap, l, p), FALSE)

CallMap ==
    /\ CanCall
    /\ \E l \in Lists, f \in [Values -> Values] :
           LET r == map(Heap, l, f)
           IN  Return("map", l, NoList, f, r.h, FALSE, r.l, r.calls, TRUE)

CallFilter ==
    /\ CanCall
    /\ \E l \in Lists, p \in Preds :
           ReturnList("filter", l, NoList, p, filter(Heap, l, p))

CallFilterNot ==
    /\ CanCall
    /\ \E l \in Lists, p \in Preds :
           ReturnList("filterNot", l, NoList, p, filterNot(Heap, l, p))

CallReverse ==
    /\ CanCall
    /\ \E l \in Lists : ReturnList("reverse", l, NoList, <<>>, reverse(Heap, l))

CallTake ==
    /\ CanCall
    /\ \E l \in Lists, n \in Sizes :
           ReturnList("take", l, NoList, n, take(Heap, l, n))

CallTakeRight ==
    /\ CanCall
    /\ \E l \in Lists, n \in Sizes :
           ReturnList("takeRight", l, NoList, n, takeRight(Heap, l, n))

CallTakeWhile ==
    /\ CanCall
    /\ \E l \in Lists, p \in Preds :
           ReturnList("takeWhile", l, NoList, p, takeWhile(Heap, l, p))

CallDrop ==
    /\ CanCall
    /\ \E l \in Lists, n \in Sizes :
           ReturnList("drop", l, NoList, n, drop(Heap, l, n))

CallDropRight ==
    /\ CanCall
    /\ \E l \in Lists, n \in Sizes :
           ReturnList("dropRight", l, NoList, n, dropRight(Heap, l, n))

CallDropWhile ==
    /\ CanCall
    /\ \E l \in Lists, p \in Preds :
           ReturnList("dropWhile", l, NoList, p, dropWhile(Heap, l, p))

CallSlice ==
    /\ CanCall
    /\ \E l \in Lists, from \in Sizes, until \in Sizes :
           ReturnList("slice", l, NoList, <<from, until>>,
                      slice(Heap, l, from, until))

CallFlatMap ==
    /\ CanCall
    /\ \E l \in Lists, f \in [Values -> Lists] :
           ReturnList("flatMap", l, NoList, f, flatMap(Heap, l, f))

CallPrepend ==
    /\ CanCall
    /\ \E l \in Lists, x \in Values :
           ReturnList("prepend", l, NoList, x, prepend(Heap, l, x))

CallConcat ==
    /\ CanCall
    /\ \E l \in Lists, that \in Lists :
           ReturnList("concat", l, that, <<>>, concat(Heap, l, that))

CallUpdated ==
    /\ CanCall
    /\ \E l \in Lists, i \in Sizes, x \in Values :
           ReturnListOrThrow("updated", l, <<i, x>>, updated(Heap, l, i, x))

CallEquals ==
    /\ CanCall
    /\ \E i \in DOMAIN handles, j \in DOMAIN handles :
           Return("equals", handles[i], handles[j], <<i, j>>, Heap, FALSE,
                  NoList, equals(Heap, handles[i], handles[j], i = j), FALSE)

CallNotEquals ==
    /\ CanCall
    /\ \E i \in DOMAIN handles, j \in DOMAIN handles :
           Return("notEquals", handles[i], handles[j], <<i, j>>, Heap, FALSE,
                  NoList, notEquals(Heap, handles[i], handles[j], i = j),
                  FALSE)

CallSorted ==
    /\ CanCall
    /\ \E l \in {x \in Lists : size(x) <= MaxSort}, lt \in Lts, stable \in BOOLEAN :
           \E r \in sorted(Heap, l, lt, stable) :
               ReturnList("sorted", l, NoList, <<lt, stable>>, r)

CallZip ==
    /\ CanCall
    /\ \E l \in Lists, that \in Lists :
           LET r == zip(Heap, l, that)
           IN  Return("zip", l, that, <<>>, r.h, FALSE, r.l, Null, FALSE)

CallScanLeft ==
    /\ CanCall
    /\ \E l \in Lists, z \in Values, op \in BinOps :
           ReturnList("scanLeft", l, NoList, <<z, op>>, scanLeft(Heap, l, z, op))

CallScanRight ==
    /\ CanCall
    /\ \E l \in Lists, z \in Values, op \in BinOps :
           ReturnList("scanRight", l, NoList, <<z, op>>,
                      scanRight(Heap, l, z, op))

CallReduce ==
    /\ CanCall
    /\ \E l \in Lists, op \in BinOps :
           ReturnValueOrThrow("reduce", l, op, reduce(Heap, l, op))

CallReduceLeft ==
    /\ CanCall
    /\ \E l \in Lists, op \in BinOps :
           ReturnValueOrThrow("reduceLeft", l, op, reduceLeft(Heap, l, op))

CallReduceRight ==
    /\ CanCall
    /\ \E l \in Lists, op \in BinOps :
           ReturnValueOrThrow("reduceRight", l, op, reduceRight(Heap, l, op))

Next ==
    \/ CallListEmpty
    \/ CallListVariadic
    \/ CallListRange
    \/ CallListCons
    \/ CallListNested
    \/ CallFlatten
    \/ CallHead
    \/ CallTail
    \/ CallUncons
    \/ CallLast
    \/ CallInit
    \/ CallIndex
    \/ CallExists
    \/ CallForall
    \/ CallCount
    \/ CallCountIf
    \/ CallMap
    \/ CallFilter
    \/ CallFilterNot
    \/ CallReverse
    \/ CallTake
    \/ CallTakeRight
    \/ CallTakeWhile
    \/ CallDrop
    \/ CallDropRight
    \/ CallDropWhile
    \/ CallSlice
    \/ CallFlatMap
    \/ CallPrepend
    \/ CallConcat
    \/ CallUpdated
    \/ CallEquals
    \/ CallNotEquals
    \/ CallSorted
    \/ CallZip
    \/ CallScanLeft
    \/ CallScanRight
    \/ CallReduce
    \/ CallReduceLeft
    \/ CallReduceRight

Spec == Init /\ [][Next]_vars

----------------------------------------------------------------------------
(* The program that traverses lists with StdIterator *)

\* Calls made, lists held and cursors held in a run of SpecIter
MaxIterOps == 6
MaxIterLists == 3
MaxCursors == 2
\* Longest list the run constructs directly
MaxIterLen == 2

IterPacks == UNION {[1..k -> Values] : k \in 0..MaxIterLen}

CanIter == ops < MaxIterOps

\* The call `name` ended and left the heap h2, the lists hs, the cursors cs
\* and the static node nil.
IterReturn(name, arg, h2, hs, cs, nil, val) ==
    /\ ops' = ops + 1
    /\ nodes' = h2.nodes
    /\ elems' = h2.elems
    /\ handles' = hs
    /\ cursors' = cs
    /\ endNil' = nil
    /\ last' = [NoCall EXCEPT !.op = name, !.arg = arg, !.val = val]
    /\ UNCHANGED <<nested, ownerVars>>

IterList ==
    /\ CanIter
    /\ Len(handles) < MaxIterLists
    /\ \E xs \in IterPacks :
           LET r == IF xs = <<>> THEN ListEmpty(Heap)
                                 ELSE ListVariadic(Heap, xs)
           IN  IterReturn("List", <<>>, r.h, Append(handles, r.l), cursors,
                          endNil, Null)

\* The combinators that build a list from the elements of another
IterDerived(l) ==
    {reverse(Heap, l), take(Heap, l, 1)}
      \cup {filter(Heap, l, p) : p \in Preds}
      \cup {concat(Heap, l, that) : that \in Lists}
      \cup {flatMap(Heap, l, [v \in Values |-> that]) : that \in Lists}

IterDerive ==
    /\ CanIter
    /\ Len(handles) < MaxIterLists
    /\ \E l \in Lists : \E r \in IterDerived(l) :
           IterReturn("derive", <<>>, r.h, Append(handles, r.l), cursors,
                      endNil, Null)

IterBegin ==
    /\ CanIter
    /\ Len(cursors) < MaxCursors
    /\ \E l \in Lists :
           IterReturn("begin", <<>>, Heap, handles,
                      Append(cursors, begin(l)), endNil, Null)

IterEnd ==
    /\ CanIter
    /\ Len(cursors) < MaxCursors
    /\ \E l \in Lists :
           LET e == end(Heap, endNil)
           IN  IterReturn("end", <<>>, e.h, handles, Append(cursors, e.it),
                          e.nil, Null)

\* ++it on a cursor that is not at the end of its list
IterInc ==
    /\ CanIter
    /\ \E c \in DOMAIN cursors :
           /\ nodes[cursors[c].node].head # Null
           /\ IterReturn("inc", <<>>, Heap, handles,
                         [cursors EXCEPT ![c] = iterInc(Heap, cursors[c])],
                         endNil, Null)

IterEquals ==
    /\ CanIter
    /\ \E a \in DOMAIN cursors, b \in DOMAIN cursors :
           IterReturn("iterEquals", <<cursors[a], cursors[b]>>, Heap, handles,
                      cursors, endNil,
                      iterEquals(Heap, cursors[a], cursors[b]))

IterNotEquals ==
    /\ CanIter
    /\ \E a \in DOMAIN cursors, b \in DOMAIN cursors :
           IterReturn("iterNotEquals", <<cursors[a], cursors[b]>>, Heap,
                      handles, cursors, endNil,
                      iterNotEquals(Heap, cursors[a], cursors[b]))

NextIter ==
    \/ IterList
    \/ IterDerive
    \/ IterBegin
    \/ IterEnd
    \/ IterInc
    \/ IterEquals
    \/ IterNotEquals

SpecIter == Init /\ [][NextIter]_vars

----------------------------------------------------------------------------
(* The program that copies, assigns and destroys its handles *)

\* Calls made and handles held in a run of SpecRc
MaxRcOps == 5
MaxRcHandles == 3
\* Longest list the run constructs directly
MaxRcLen == 2

RcPacks == UNION {[1..k -> Values] : k \in 0..MaxRcLen}

CanRc == ops < MaxRcOps

\* The handles that own a node
Owning == {i \in DOMAIN handles : handles[i].node # Null}

\* The slot of a handle whose destructor ran: the object's lifetime is over,
\* and the program names it no more.
Destroyed == [size |-> 0, node |-> Null, destroyed |-> TRUE]

\* The handles the program may assign to: the live ones and the moved-from
\* ones (a moved-from handle holds the null pointer and keeps its size_).
Assignable == {i \in DOMAIN handles : handles[i] # Destroyed}

\* The step `name` ended and left the heap h2, the handles hs and the
\* counts c.
RcReturn(name, h2, hs, c) ==
    /\ ops' = ops + 1
    /\ nodes' = h2.nodes
    /\ elems' = h2.elems
    /\ handles' = hs
    /\ rc' = c.rc
    /\ reclaimed' = c.reclaimed
    /\ last' = [NoCall EXCEPT !.op = name]
    /\ UNCHANGED <<nested, iterVars, threads>>

RcList ==
    /\ CanRc
    /\ Len(handles) < MaxRcHandles
    /\ \E xs \in RcPacks :
           LET r == IF xs = <<>> THEN ListEmpty(Heap)
                                 ELSE ListVariadic(Heap, xs)
           IN  RcReturn("List", r.h, Append(handles, r.l),
                        returned(Counts, r.h, r.l))

\* The combinator calls of the run on the list l
RcResults(l) ==
    {reverse(Heap, l), take(Heap, l, 1), drop(Heap, l, 1),
     prepend(Heap, l, 1), slice(Heap, l, 1, 2),
     filter(Heap, l, [set |-> {1}, pos |-> TRUE])}
      \cup {concat(Heap, l, handles[j]) : j \in Owning}
      \cup (IF isEmpty(l) THEN {}
            ELSE {[h |-> Heap, l |-> tail(Heap, l).l]})

RcCall ==
    /\ CanRc
    /\ Len(handles) < MaxRcHandles
    /\ \E i \in Owning : \E r \in RcResults(handles[i]) :
           RcReturn("call", r.h, Append(handles, r.l),
                    returned(Counts, r.h, r.l))

RcCopyConstruct ==
    /\ CanRc
    /\ Len(handles) < MaxRcHandles
    /\ \E i \in Owning :
           LET r == copyConstruct(Counts, handles[i])
           IN  RcReturn("copy", Heap, Append(handles, r.l), r.c)

RcMoveConstruct ==
    /\ CanRc
    /\ Len(handles) < MaxRcHandles
    /\ \E i \in Owning :
           LET r == moveConstruct(Counts, handles[i])
           IN  RcReturn("move", Heap,
                        Append([handles EXCEPT ![i] = r.from], r.l), r.c)

RcCopyAssign ==
    /\ CanRc
    /\ \E i \in Assignable, j \in Owning :
           LET r == copyAssign(Counts, nodes, handles[i], handles[j])
           IN  RcReturn("copyAssign", Heap, [handles EXCEPT ![i] = r.l], r.c)

RcMoveAssign ==
    /\ CanRc
    /\ \E i \in Assignable, j \in Owning :
           /\ i # j
           /\ LET r == moveAssign(Counts, nodes, handles[i], handles[j])
              IN  RcReturn("moveAssign", Heap,
                           [handles EXCEPT ![i] = r.l, ![j] = r.from], r.c)

\* ~List() at the end of the lifetime of a handle, live or moved-from: its
\* slot stays in handles, marked Destroyed.
RcDestroy ==
    /\ CanRc
    /\ \E i \in Assignable :
           RcReturn("destroy", Heap, [handles EXCEPT ![i] = Destroyed],
                    destroy(Counts, nodes, handles[i]))

NextRc ==
    \/ RcList
    \/ RcCall
    \/ RcCopyConstruct
    \/ RcMoveConstruct
    \/ RcCopyAssign
    \/ RcMoveAssign
    \/ RcDestroy

SpecRc == Init /\ [][NextRc]_vars

----------------------------------------------------------------------------
(* The program whose threads share node chains *)

NumThreads == 2
\* Operations begun by all threads together, and handles one thread holds
MaxThreadOps == 5
MaxThreadHandles == 2
\* Length of the list the threads start from
ThreadLen == 2

Threads == 1..NumThreads

\* A thread between two operations is "idle".  It is at "walk" inside
\* foreachImpl with cur the node it reads next, at "acquire" inside tail()
\* about to copy the pointer cur, at "reclaim" about to run ~Node on cur,
\* and at "release" about to decrement the count of cur.
Thread(pc, hs, cur) == [pc |-> pc, hs |-> hs, cur |-> cur]

Without(q, i) == SubSeq(q, 1, i - 1) \o SubSeq(q, i + 1, Len(q))

\* The counts after a copy of each of the lists ls was constructed
RECURSIVE handedOut(_, _)
handedOut(c, ls) ==
    IF ls = <<>> THEN c
    ELSE handedOut(copyConstruct(c, Head(ls)).c, Tail(ls))

\* The main thread builds a list, hands a copy of it to thread 1 and a copy
\* of the list or of its tail to every other thread, and destroys its own
\* handle.
InitThreads ==
    \E xs \in [1..ThreadLen -> Values], overlap \in BOOLEAN :
        LET b  == ListVariadic([nodes |-> <<>>, elems |-> <<>>], xs)
            c0 == returned([rc |-> <<>>, reclaimed |-> <<>>], b.h, b.l)
            ls == [t \in Threads |-> IF overlap /\ t > 1
                                      THEN tail(b.h, b.l).l ELSE b.l]
            c3 == destroy(handedOut(c0, ls), b.h.nodes, b.l)
        IN  /\ nodes = b.h.nodes
            /\ elems = b.h.elems
            /\ rc = c3.rc
            /\ reclaimed = c3.reclaimed
            /\ threads = [t \in Threads |-> Thread("idle", <<ls[t]>>, Null)]
            /\ handles = <<>>
            /\ nested = <<>>
            /\ cursors = <<>>
            /\ endNil = Null
            /\ last = NoCall
            /\ ops = 0

\* Thread t may begin an operation.
CanBegin(t) == threads[t].pc = "idle" /\ ops < MaxThreadOps

\* Thread t took a step that left the counts c and the thread as th; began
\* tells whether the step began an operation.
ThreadStep(t, name, c, th, began) ==
    /\ threads' = [threads EXCEPT ![t] = th]
    /\ rc' = c.rc
    /\ reclaimed' = c.reclaimed
    /\ ops' = IF began THEN ops + 1 ELSE ops
    /\ last' = [NoCall EXCEPT !.op = name, !.arg = t]

\* List(const List&) by thread t: one atomic increment
TCopy(t) ==
    /\ CanBegin(t)
    /\ Len(threads[t].hs) < MaxThreadHandles
    /\ \E i \in DOMAIN threads[t].hs :
           LET r == copyConstruct(Counts, threads[t].hs[i])
           IN  /\ ThreadStep(t, "copy", r.c,
                             Thread("idle", Append(threads[t].hs, r.l), Null),
                             TRUE)
               /\ UNCHANGED <<nodes, elems, handles, nested, iterVars>>

\* ~List() by thread t: one atomic decrement; the last owner goes on to
\* destroy the node.
TDestroy(t) ==
    /\ CanBegin(t)
    /\ \E i \in DOMAIN threads[t].hs :
           LET n == threads[t].hs[i].node
           IN  /\ ThreadStep(t, "destroy", decrement(Counts, n),
                             Thread(IF lastOwner(Counts, n) THEN "reclaim"
                                                            ELSE "idle",
                                    Without(threads[t].hs, i),
                                    IF lastOwner(Counts, n) THEN n ELSE Null),
                             TRUE)
               /\ UNCHANGED <<nodes, elems, handles, nested, iterVars>>

\* ~Node by thread t on the node it was the last owner of; the node's tail
\* pointer is released next.
TReclaim(t) ==
    /\ threads[t].pc = "reclaim"
    /\ LET n  == threads[t].cur
           tl == nodes[n].tail
       IN  ThreadStep(t, "reclaim", reclaim(Counts, n),
                      Thread(IF tl = Null THEN "idle" ELSE "release",
                             threads[t].hs, tl),
                      FALSE)
    /\ UNCHANGED <<nodes, elems, handles, nested, iterVars>>

\* The atomic decrement of the tail of a node being destroyed
TRelease(t) ==
    /\ threads[t].pc = "release"
    /\ LET n == threads[t].cur
       IN  ThreadStep(t, "release", decrement(Counts, n),
                      Thread(IF lastOwner(Counts, n) THEN "reclaim"
                                                     ELSE "idle",
                             threads[t].hs,
                             IF lastOwner(Counts, n) THEN n ELSE Null),
                      FALSE)
    /\ UNCHANGED <<nodes, elems, handles, nested, iterVars>>

\* foreachImpl by thread t on one of its handles: n = node_.get()
TWalkBegin(t) ==
    /\ CanBegin(t)
    /\ \E i \in DOMAIN threads[t].hs :
           /\ ThreadStep(t, "foreach", Counts,
                         Thread("walk", threads[t].hs, threads[t].hs[i].node),
                         TRUE)
           /\ UNCHANGED <<nodes, elems, handles, nested, iterVars>>

\* One turn of the loop of foreachImpl: reads n->head, then n->tail
TWalkStep(t) ==
    /\ threads[t].pc = "walk"
    /\ LET n == threads[t].cur
       IN  ThreadStep(t, "read", Counts,
                      IF nodes[n].head = Null
                      THEN Thread("idle", threads[t].hs, Null)
                      ELSE Thread("walk", threads[t].hs, nodes[n].tail),
                      FALSE)
    /\ UNCHANGED <<nodes, elems, handles, nested, iterVars>>

\* tail() by thread t on one of its non-empty handles: reads node_->tail
TTailBegin(t) ==
    /\ CanBegin(t)
    /\ Len(threads[t].hs) < MaxThreadHandles
    /\ \E i \in DOMAIN threads[t].hs :
           /\ ~isEmpty(threads[t].hs[i])
           /\ ThreadStep(t, "tail", Counts,
                         Thread("acquire", threads[t].hs,
                                tail(Heap, threads[t].hs[i]).l),
                         TRUE)
           /\ UNCHANGED <<nodes, elems, handles, nested, iterVars>>

\* tail() by thread t, the rest: the atomic increment for the returned
\* handle
TAcquire(t) ==
    /\ threads[t].pc = "acquire"
    /\ LET r == copyConstruct(Counts, threads[t].cur)
       IN  ThreadStep(t, "acquire", r.c,
                      Thread("idle", Append(threads[t].hs, r.l), Null),
                      FALSE)
    /\ UNCHANGED <<nodes, elems, handles, nested, iterVars>>

\* prepend(x) by thread t on one of its handles: a new node that owns the
\* handle's root
TPrepend(t) ==
    /\ CanBegin(t)
    /\ Len(threads[t].hs) < MaxThreadHandles
    /\ \E i \in DOMAIN threads[t].hs, x \in Values :
           LET r == prepend(Heap, threads[t].hs[i], x)
           IN  /\ ThreadStep(t, "prepend", returned(Counts, r.h, r.l),
                             Thread("idle", Append(threads[t].hs, r.l), Null),
                             TRUE)
               /\ nodes' = r.h.nodes
               /\ elems' = r.h.elems
               /\ UNCHANGED <<handles, nested, iterVars>>

NextThreads ==
    \E t \in Threads :
        \/ TCopy(t)
        \/ TDestroy(t)
        \/ TReclaim(t)
        \/ TRelease(t)
        \/ TWalkBegin(t)
        \/ TWalkStep(t)
        \/ TTailBegin(t)
        \/ TAcquire(t)
        \/ TPrepend(t)

SpecThreads == InitThreads /\ [][NextThreads]_vars

----------------------------------------------------------------------------
(* The program that keeps cursors while it destroys handles *)

\* Cursors held in a run of SpecCursor
MaxTraversals == 1

\* A cursor of the run: the StdIterator it, with the root and the size of
\* the list whose begin() made it and the number of times it was advanced.
\* A wild cursor was advanced while it pointed at a destroyed node.
Cursor(it, l, steps, wild) ==
    [it |-> it, root |-> l.node, size |-> l.size, steps |-> steps,
     wild |-> wild]

\* The cursor step `name` left the cursors cs and the counts c.
CursorReturn(name, cs, c) ==
    /\ cursors' = cs
    /\ rc' = c.rc
    /\ reclaimed' = c.reclaimed
    /\ last' = [NoCall EXCEPT !.op = name]
    /\ UNCHANGED <<nodes, elems, handles, nested, ops, endNil, threads>>

CursorBegin ==
    /\ Len(cursors) < MaxTraversals
    /\ \E i \in Owning :
           CursorReturn("begin",
                        Append(cursors,
                               Cursor(begin(handles[i]), handles[i], 0,
                                      FALSE)),
                        beginCounts(Counts, handles[i]))

\* ++it on a cursor at an element of a live node
CursorInc ==
    \E k \in DOMAIN cursors :
        LET c == cursors[k]
        IN  /\ ~c.wild
            /\ reclaimed[c.it.node] = 0
            /\ nodes[c.it.node].head # Null
            /\ CursorReturn("inc",
                            [cursors EXCEPT ![k] =
                                 [c EXCEPT !.it = iterInc(Heap, c.it),
                                           !.steps = @ + 1]],
                            Counts)

\* ++it on a cursor whose node was destroyed: node_->tail reads freed
\* memory, and the cursor may end up anywhere.
CursorIncDangling ==
    \E k \in DOMAIN cursors :
        LET c == cursors[k]
        IN  /\ ~c.wild
            /\ reclaimed[c.it.node] > 0
            /\ \E n \in DOMAIN nodes \cup {Null} :
                   CursorReturn("inc",
                                [cursors EXCEPT ![k] =
                                     [c EXCEPT !.it = [node |-> n],
                                               !.steps = @ + 1,
                                               !.wild = TRUE]],
                                Counts)

NextCursor ==
    \/ RcList
    \/ RcCall
    \/ RcCopyConstruct
    \/ RcDestroy
    \/ CursorBegin
    \/ CursorInc
    \/ CursorIncDangling

SpecCursor == Init /\ [][NextCursor]_vars

----------------------------------------------------------------------------
(* Properties *)

\* A Nil node holds no element and no tail; a Cons node holds both.
IsNil(ns, n) == ns[n].head = Null /\ ns[n].tail = Null

IsCons(ns, n) == ns[n].head # Null /\ ns[n].tail # Null

\* The Cons nodes reachable from n before the terminating Nil, in order
RECURSIVE Chain(_, _)
Chain(ns, n) == IF IsNil(ns, n) THEN <<>> ELSE <<n>> \o Chain(ns, ns[n].tail)

\* The element objects of list l, in iteration order
ElemsOf(ns, l) == LET c == Chain(ns, l.node) IN [i \in 1..Len(c) |-> ns[c[i]].head]

\* The element values of list l, in iteration order
ValuesOf(ns, es, l) ==
    LET e == ElemsOf(ns, l) IN [i \in 1..Len(e) |-> es[e[i]]]

Reverse(q) == [i \in 1..Len(q) |-> q[Len(q) + 1 - i]]

RECURSIVE Flat(_)
Flat(qs) == IF qs = <<>> THEN <<>> ELSE Head(qs) \o Flat(Tail(qs))

Occurrences(q, x) == Cardinality({i \in 1..Len(q) : q[i] = x})

\* Every list the program holds, and the list the latest call returned
AllLists ==
    Lists \cup {nested[i] : i \in DOMAIN nested}
          \cup (IF last.res.node = Null THEN {} ELSE {last.res})

Returned(name) == last.op = name /\ ~last.threw

\* C1: after any sequence of constructor and combinator calls, the cached
\* size of every list equals the number of Cons nodes between its root and
\* the terminating Nil, and the size is 0 exactly when the root is a Nil.
SizeMatchesChain ==
    \A l \in AllLists :
        /\ l.size = Len(Chain(nodes, l.node))
        /\ \A i \in 1..Len(Chain(nodes, l.node)) :
               IsCons(nodes, Chain(nodes, l.node)[i])
        /\ (l.size = 0) <=> IsNil(nodes, l.node)

\* C1 witness: dropWhile returned a non-empty proper suffix of a list that
\* was itself derived by an earlier call.
SizeMatchesChainWitness ==
    /\ Returned("dropWhile")
    /\ ops = 3
    /\ 0 < last.res.size
    /\ last.res.size < last.recv.size

\* C2: a call changes no list that existed before it: every earlier handle
\* keeps its size, root, elements and order, and every node and element
\* object that existed before the call is the same after it.
SourceUnchanged ==
    [][ /\ \A n \in DOMAIN nodes : nodes'[n] = nodes[n]
        /\ \A e \in DOMAIN elems : elems'[e] = elems[e]
        /\ \A i \in DOMAIN handles :
               /\ handles'[i] = handles[i]
               /\ ValuesOf(nodes', elems', handles'[i])
                    = ValuesOf(nodes, elems, handles[i])
        /\ \A i \in DOMAIN nested : nested'[i] = nested[i] ]_vars

\* C2 witness: reverse returned a list that differs from its source.
SourceUnchangedWitness ==
    /\ Returned("reverse")
    /\ last.recv.size >= 2
    /\ ValuesOf(nodes, elems, last.res) # ValuesOf(nodes, elems, last.recv)
    /\ last.recv \in Lists

\* C3: on a non-empty list, tail() returns a list one shorter whose root is
\* the very node the first node's tail points to; no node is created.
TailSharesChain ==
    Returned("tail") =>
        /\ last.res.size = last.recv.size - 1
        /\ last.res.node = nodes[last.recv.node].tail
        /\ Chain(nodes, last.res.node) = Tail(Chain(nodes, last.recv.node))
        /\ Len(nodes) = last.n0

\* C3 witness: tail() returned on a list of three elements.
TailSharesChainWitness ==
    /\ Returned("tail")
    /\ last.recv.size = 3

\* The node reached from n by following k tail pointers
RECURSIVE NthNode(_, _, _)
NthNode(ns, n, k) == IF k = 0 THEN n ELSE NthNode(ns, ns[n].tail, k - 1)

DropValues ==
    LET src == ValuesOf(nodes, elems, last.recv)
    IN  ValuesOf(nodes, elems, last.res)
          = SubSeq(src, Min(last.arg, last.recv.size) + 1, Len(src))

\* C4 as stated: for every n, drop(n) holds the elements after the first
\* min(n, size), its root is the node reached by min(n, size) tail pointers
\* from the source's root, and no node is created.
DropSharesForEveryN ==
    Returned("drop") =>
        /\ DropValues
        /\ last.res.node
             = NthNode(nodes, last.recv.node, Min(last.arg, last.recv.size))
        /\ Len(nodes) = last.n0

\* C4 amended: for every n, drop(n) holds the elements after the first
\* min(n, size).  When n < size its root is the node reached by n tail
\* pointers from the source's root and no node is created.  When n >= size
\* the result is an empty list whose root is a new Nil node, the only node
\* the call creates; no element object is created in either case.
DropSharesSuffix ==
    Returned("drop") =>
        /\ DropValues
        /\ Len(elems) = last.e0
        /\ last.arg < last.recv.size =>
               /\ last.res.node = NthNode(nodes, last.recv.node, last.arg)
               /\ last.res.size = last.recv.size - last.arg
               /\ Len(nodes) = last.n0
        /\ last.arg >= last.recv.size =>
               /\ last.res.size = 0
               /\ IsNil(nodes, last.res.node)
               /\ last.res.node = last.n0 + 1
               /\ Len(nodes) = last.n0 + 1

\* C4 witness: drop(n) returned with 0 < n < size.
DropSharesSuffixWitness ==
    /\ Returned("drop")
    /\ 0 < last.arg
    /\ last.arg < last.recv.size

\* C5: filterNot(p) is the subsequence of the source's values for which p is
\* false, in order and with multiplicity; it is empty when the source is
\* empty or p holds everywhere, and equal to the source when p holds nowhere.
FilterNotSubsequence ==
    Returned("filterNot") =>
        LET src == ValuesOf(nodes, elems, last.recv)
            out == ValuesOf(nodes, elems, last.res)
        IN  /\ out = SelectSeq(src, LAMBDA x : x \notin last.arg.set)
            /\ (\A i \in 1..Len(src) : src[i] \in last.arg.set) => out = <<>>
            /\ (\A i \in 1..Len(src) : src[i] \notin last.arg.set) => out = src
            /\ last.res.size = Len(out)

\* C5 witness: filterNot(p) dropped some but not all of three elements.
FilterNotSubsequenceWitness ==
    /\ Returned("filterNot")
    /\ last.recv.size = 3
    /\ 0 < last.res.size
    /\ last.res.size < 3

\* C6: every element of filter(p) satisfies p (forall(p) is true on it), and
\* filter(p).size() + filterNot(p).size() == size().
FilterPartition ==
    Returned("filter") =>
        /\ forall(Heap, last.res, last.arg).v
        /\ last.res.size + filterNot(Heap, last.recv, last.arg).l.size
             = last.recv.size

\* C6 witness: filter(p) kept some but not all elements of its source.
FilterPartitionWitness ==
    /\ Returned("filter")
    /\ 0 < last.res.size
    /\ last.res.size < last.recv.size

\* The longest prefix of element objects q whose values satisfy p
PrefixWhile(q, p) ==
    LET good(k) == \A i \in 1..k : P(p, elems[q[i]])
        k == CHOOSE m \in 0..Len(q) :
                 good(m) /\ \A j \in 0..Len(q) : good(j) => j <= m
    IN  SubSeq(q, 1, k)

\* C7: filter, filterNot, take, takeWhile, reverse, concat, sorted, flatMap
\* and flatten create no element object: each element of the result is the
\* same element object as the corresponding element of the source.
ElementsShared ==
    LET src == ElemsOf(nodes, last.recv)
        out == ElemsOf(nodes, last.res)
        same == Len(elems) = last.e0
    IN  /\ Returned("filter") =>
              same /\ out = SelectSeq(src, LAMBDA x : P(last.arg, elems[x]))
        /\ Returned("filterNot") =>
              same /\ out = SelectSeq(src, LAMBDA x : ~P(last.arg, elems[x]))
        /\ Returned("take") =>
              same /\ out = SubSeq(src, 1, Min(last.arg, Len(src)))
        /\ Returned("takeWhile") =>
              same /\ out = PrefixWhile(src, last.arg)
        /\ Returned("reverse") =>
              same /\ out = Reverse(src)
        /\ Returned("concat") =>
              same /\ out = src \o ElemsOf(nodes, last.that)
        /\ Returned("sorted") =>
              /\ same
              /\ Len(out) = Len(src)
              /\ \A i \in 1..Len(src) :
                     Occurrences(out, src[i]) = Occurrences(src, src[i])
        /\ Returned("flatMap") =>
              same /\ out = Flat([i \in 1..Len(src) |->
                                     ElemsOf(nodes, last.arg[elems[src[i]]])])
        /\ Returned("flatten") =>
              same /\ out = Flat([i \in 1..Len(src) |->
                                     ElemsOf(nodes, elems[src[i]])])

\* C7 witness: take(n) returned a proper non-empty prefix.
ElementsSharedWitness ==
    /\ Returned("take")
    /\ 0 < last.arg
    /\ last.arg < last.recv.size

EmptyThrowers ==
    {"head", "tail", "uncons", "last", "init",
     "reduce", "reduceLeft", "reduceRight"}

\* C8: head, tail, uncons, last, init, reduce, reduceLeft and reduceRight
\* throw std::out_of_range exactly when the list is empty; on a non-empty
\* list they return.
ThrowsIffEmpty ==
    last.op \in EmptyThrowers => (last.threw <=> last.recv.size = 0)

\* C8 witness: init() threw on an empty list.
ThrowsIffEmptyWitness ==
    /\ last.op = "init"
    /\ last.threw
    /\ last.recv.size = 0

\* C9: operator[] and updated throw std::out_of_range exactly when
\* index >= size(); operator[] otherwise returns the element at that
\* zero-based position from the head.
ThrowsIffOutOfRange ==
    /\ last.op = "index" =>
           /\ last.threw <=> last.arg >= last.recv.size
           /\ ~last.threw =>
                  last.val = ElemsOf(nodes, last.recv)[last.arg + 1]
    /\ last.op = "updated" =>
           (last.threw <=> last.arg[1] >= last.recv.size)

\* C9 witness: operator[] returned the third element of a list.
ThrowsIffOutOfRangeWitness ==
    /\ Returned("index")
    /\ last.arg = 2
    /\ last.val # Null

\* C10: a call that throws returns no list and leaves the heap and every
\* list as they were: no node or element object is created or changed.
FailedCallChangesNothing ==
    [][ last'.threw =>
            /\ nodes' = nodes
            /\ elems' = elems
            /\ handles' = handles
            /\ nested' = nested
            /\ last'.res = NoList ]_vars

\* C10 witness: updated threw on an index past the end of a non-empty list.
FailedCallChangesNothingWitness ==
    /\ last.op = "updated"
    /\ last.threw
    /\ last.recv.size > 0

\* C13: take(n) returns a list of min(n, size()) elements, and for every n
\* the list take(n).concat(drop(n)) compares equal (operator==) to the
\* receiver.
TakeDropRoundTrip ==
    Returned("take") =>
        LET d == drop(Heap, last.recv, last.arg)
            c == concat(d.h, last.res, d.l)
        IN  /\ size(last.res) = Min(last.arg, size(last.recv))
            /\ Len(Chain(nodes, last.res.node))
                   = Min(last.arg, Len(Chain(nodes, last.recv.node)))
            /\ equals(c.h, c.l, last.recv, FALSE).v
            /\ ValuesOf(c.h.nodes, c.h.elems, c.l)
                   = ValuesOf(nodes, elems, last.recv)

\* C13 witness: take(n) split a list of three elements at an inner position.
TakeDropRoundTripWitness ==
    /\ Returned("take")
    /\ last.recv.size = 3
    /\ last.arg \in {1, 2}
    /\ last.res.size = last.arg

\* C14: reverse() returns a list of the same size whose elements are the
\* receiver's in reversed order, and reversing the result again gives a
\* list that compares equal (operator==) to the receiver.
ReverseInvolution ==
    Returned("reverse") =>
        LET rr == reverse(Heap, last.res)
        IN  /\ size(last.res) = size(last.recv)
            /\ ValuesOf(nodes, elems, last.res)
                   = Reverse(ValuesOf(nodes, elems, last.recv))
            /\ equals(rr.h, rr.l, last.recv, FALSE).v

\* C14 witness: reverse() returned a list of three elements that differs
\* from the receiver.
ReverseInvolutionWitness ==
    /\ Returned("reverse")
    /\ last.res.size = 3
    /\ ValuesOf(nodes, elems, last.res) # ValuesOf(nodes, elems, last.recv)

\* C15: updated(index, v) with index < size() returns a list of the same
\* size with v at index and the other elements unchanged; the chain
\* strictly after index is the receiver's own nodes, and exactly the
\* index + 1 leading nodes of the result are new.
UpdatedSharesSuffix ==
    Returned("updated") =>
        LET i   == last.arg[1]
            src == Chain(nodes, last.recv.node)
            out == Chain(nodes, last.res.node)
            sv  == ValuesOf(nodes, elems, last.recv)
        IN  /\ size(last.res) = size(last.recv)
            /\ Len(out) = Len(src)
            /\ ValuesOf(nodes, elems, last.res)
                   = [k \in 1..Len(sv) |-> IF k = i + 1 THEN last.arg[2]
                                                        ELSE sv[k]]
            /\ \A k \in 1..Len(out) : k > i + 1 => out[k] = src[k]
            /\ nodes[out[i + 1]].tail = nodes[src[i + 1]].tail
            /\ \A k \in 1..(i + 1) : out[k] > last.n0
            /\ Len(nodes) = last.n0 + i + 1
            /\ \A k \in 1..i :
                   nodes[out[k]].head = nodes[src[k]].head

\* C15 witness: updated replaced the middle element of a list of three.
UpdatedSharesSuffixWitness ==
    /\ Returned("updated")
    /\ last.recv.size = 3
    /\ last.arg[1] = 1
    /\ ValuesOf(nodes, elems, last.res) # ValuesOf(nodes, elems, last.recv)

\* C16: concat(ys) returns a list of size() + ys.size() elements, the
\* receiver's followed by ys's.  When either operand is empty the result's
\* root is the other operand's root and no node is built; otherwise exactly
\* size() nodes are built and the last of them has ys's root as its tail.
ConcatSharesOperand ==
    Returned("concat") =>
        LET xs  == last.recv
            ys  == last.that
            out == Chain(nodes, last.res.node)
        IN  /\ size(last.res) = size(xs) + size(ys)
            /\ ValuesOf(nodes, elems, last.res)
                   = ValuesOf(nodes, elems, xs) \o ValuesOf(nodes, elems, ys)
            /\ size(xs) = 0 =>
                   last.res.node = ys.node /\ Len(nodes) = last.n0
            /\ size(xs) # 0 /\ size(ys) = 0 =>
                   last.res.node = xs.node /\ Len(nodes) = last.n0
            /\ size(xs) # 0 /\ size(ys) # 0 =>
                   /\ Len(nodes) = last.n0 + size(xs)
                   /\ \A k \in 1..size(xs) : out[k] > last.n0
                   /\ nodes[out[size(xs)]].tail = ys.node

\* C16 witness: concat joined two non-empty lists.
ConcatSharesOperandWitness ==
    /\ Returned("concat")
    /\ last.recv.size = 2
    /\ last.that.size > 0

\* C16 witness of the shortcut: concat of a non-empty list with an empty one.
ConcatEmptyOperandWitness ==
    /\ Returned("concat")
    /\ last.recv.size > 0
    /\ last.that.size = 0

\* C20: for every n, also n > size(), takeRight(n) returns the last
\* min(n, size()) elements (the whole list when n > size()) and
\* dropRight(n) returns the first size() - min(n, size()) elements (the
\* empty list when n > size()); the count handed on to drop and take is
\* size() - min(n, size()), which never wraps around.
TakeRightDropRightClamp ==
    LET sv == ValuesOf(nodes, elems, last.recv)
        k  == Min(last.arg, size(last.recv))
        d  == USub(size(last.recv), k)
    IN  /\ Returned("takeRight") =>
               /\ d = size(last.recv) - k
               /\ size(last.res) = k
               /\ ValuesOf(nodes, elems, last.res)
                      = SubSeq(sv, Len(sv) - k + 1, Len(sv))
               /\ last.arg > size(last.recv) =>
                      ValuesOf(nodes, elems, last.res) = sv
        /\ Returned("dropRight") =>
               /\ d = size(last.recv) - k
               /\ size(last.res) = size(last.recv) - k
               /\ ValuesOf(nodes, elems, last.res)
                      = SubSeq(sv, 1, Len(sv) - k)
               /\ last.arg > size(last.recv) =>
                      size(last.res) = 0 /\ IsNil(nodes, last.res.node)

\* C20 witness: takeRight(n) was called with n above the size of a
\* non-empty list.
TakeRightDropRightClampWitness ==
    /\ Returned("takeRight")
    /\ last.recv.size > 0
    /\ last.arg > last.recv.size
    /\ last.res.size = last.recv.size

\* C20 witness for dropRight: n above the size of a non-empty list.
DropRightClampWitness ==
    /\ Returned("dropRight")
    /\ last.recv.size > 0
    /\ last.arg > last.recv.size

\* C18 as stated: a list constructed from n elements, given as constructor
\* arguments or as an iterator pair over a multipass or a read-once source,
\* has size n and holds the elements in input order.
ConstructionKeepsInput ==
    /\ Returned("List") =>
           /\ size(last.res) = Len(last.arg)
           /\ ValuesOf(nodes, elems, last.res) = last.arg
    /\ Returned("ListRange") =>
           /\ size(last.res) = Len(last.arg[1])
           /\ ValuesOf(nodes, elems, last.res) = last.arg[1]

\* C18, what the constructors do: the variadic constructor and the
\* iterator-pair constructor over a multipass source keep every element in
\* input order; over a read-once source the iterator-pair constructor keeps
\* the first element only.
ConstructionFromRange ==
    /\ Returned("List") =>
           /\ size(last.res) = Len(last.arg)
           /\ ValuesOf(nodes, elems, last.res) = last.arg
    /\ Returned("ListRange") =>
           LET xs == last.arg[1]
               kept == IF last.arg[2] \/ xs = <<>> THEN xs ELSE <<Head(xs)>>
           IN  /\ size(last.res) = Len(kept)
               /\ ValuesOf(nodes, elems, last.res) = kept

\* C18 witness: the iterator-pair constructor ran over a read-once source
\* of two elements.
ConstructionFromRangeWitness ==
    /\ Returned("ListRange")
    /\ ~last.arg[2]
    /\ Len(last.arg[1]) = 2
    /\ last.res.size = 1

\* C19: xs == ys is true exactly when both lists have the same size and
\* pairwise equal elements in order, whether or not they share a node;
\* lists of different sizes are unequal without any element comparison; a
\* handle always equals itself; xs != ys is the negation of xs == ys.
EqualityByValue ==
    LET a    == ValuesOf(nodes, elems, last.recv)
        b    == ValuesOf(nodes, elems, last.that)
        same == last.arg[1] = last.arg[2]
    IN  /\ Returned("equals") =>
               /\ last.val.v <=>
                      /\ size(last.recv) = size(last.that)
                      /\ \A k \in 1..Len(a) : a[k] = b[k]
               /\ size(last.recv) # size(last.that) =>
                      ~last.val.v /\ last.val.cmps = 0
               /\ same => last.val.v
        /\ Returned("notEquals") =>
               /\ last.val.v = ~equals(Heap, last.recv, last.that, same).v
               /\ last.val.v <=> a # b

\* C19 witness: operator== returned true for two lists of two elements that
\* share no node and no element object.
EqualityByValueWitness ==
    /\ Returned("equals")
    /\ last.val.v
    /\ last.recv.size = 2
    /\ last.arg[1] # last.arg[2]
    /\ \A k \in 1..2 :
           /\ Chain(nodes, last.recv.node)[k] # Chain(nodes, last.that.node)[k]
           /\ ElemsOf(nodes, last.recv)[k] # ElemsOf(nodes, last.that)[k]

\* C19 witness for operator!=: two lists of equal size that differ.
InequalityWitness ==
    /\ Returned("notEquals")
    /\ last.val.v
    /\ last.recv.size = last.that.size

\* C17 as stated: two cursors that are not at the end compare equal exactly
\* when they point at the same node, whatever lists they come from; a
\* cursor compares equal to end() exactly when it is at a terminating Nil;
\* begin() of an empty list equals end(); != is the negation of ==.
CursorEqualityIsNodeIdentity ==
    LET a == last.arg[1].node
        b == last.arg[2].node
    IN  /\ last.op = "iterEquals" =>
               /\ ~IsNil(nodes, a) /\ ~IsNil(nodes, b) =>
                      (last.val <=> a = b)
               /\ b = endNil => (last.val <=> IsNil(nodes, a))
        /\ last.op = "iterNotEquals" =>
               /\ ~IsNil(nodes, a) /\ ~IsNil(nodes, b) =>
                      (last.val <=> a # b)
               /\ b = endNil => (last.val <=> ~IsNil(nodes, a))
        /\ endNil # Null =>
               \A l \in Lists :
                   size(l) = 0 =>
                       iterEquals(Heap, begin(l), [node |-> endNil])

\* C17, what operator== does: two cursors compare equal exactly when their
\* nodes hold the same element object, or both hold none.
CursorEqualityIsElementIdentity ==
    LET a == last.arg[1].node
        b == last.arg[2].node
    IN  /\ last.op = "iterEquals" =>
               /\ ~IsNil(nodes, a) /\ ~IsNil(nodes, b) =>
                      (last.val <=> nodes[a].head = nodes[b].head)
               /\ a = b => last.val
               /\ IsNil(nodes, b) => (last.val <=> IsNil(nodes, a))
        /\ last.op = "iterNotEquals" =>
               last.val = ~iterEquals(Heap, last.arg[1], last.arg[2])

\* C17 witness: operator== returned true for two cursors that point at
\* different Cons nodes.
CursorsEqualOnDifferentNodes ==
    /\ last.op = "iterEquals"
    /\ last.val
    /\ last.arg[1].node # last.arg[2].node
    /\ IsCons(nodes, last.arg[1].node)
    /\ IsCons(nodes, last.arg[2].node)

\* The handles and live nodes that hold a pointer to node n
Referrers(n) ==
    Cardinality({i \in DOMAIN handles : handles[i].node = n})
      + Cardinality({m \in DOMAIN nodes :
                        reclaimed[m] = 0 /\ nodes[m].tail = n})

\* The nodes reachable from node n, the terminating Nil included
RECURSIVE Reach(_, _)
Reach(ns, n) == IF n = Null THEN {} ELSE {n} \cup Reach(ns, ns[n].tail)

\* C11: after every construction, combinator call, handle copy, assignment
\* and destruction, a node is alive exactly when a live handle or a live
\* node references it: no node reachable from a handle is reclaimed, every
\* node without a reference is reclaimed (once), and every tail points at
\* an older node, so the reference graph has no cycle.
NodeAliveIffReferenced ==
    /\ \A n \in DOMAIN nodes :
           /\ reclaimed[n] = 0 <=> Referrers(n) > 0
           /\ reclaimed[n] <= 1
           /\ reclaimed[n] = 0 => rc[n] = Referrers(n)
           /\ nodes[n].tail < n
    /\ \A i \in DOMAIN handles :
           \A n \in Reach(nodes, handles[i].node) : reclaimed[n] = 0

\* C11 witness: a handle was destroyed; the first node of its chain was
\* reclaimed while the rest of the chain stays alive for another handle.
NodeAliveIffReferencedWitness ==
    /\ last.op = "destroy"
    /\ \E n \in DOMAIN nodes :
           /\ reclaimed[n] = 1
           /\ IsCons(nodes, n)
           /\ IsCons(nodes, nodes[n].tail)
           /\ reclaimed[nodes[n].tail] = 0

\* C11 witness of reclamation: destroying the last handle of a chain
\* reclaimed every node of the chain.
ChainReclaimedWitness ==
    /\ last.op = "destroy"
    /\ Len(nodes) >= 3
    /\ \A n \in DOMAIN nodes : reclaimed[n] = 1

\* The handles and live nodes that hold a pointer to node n when the
\* handles are those of the threads
ThreadReferrers(n) ==
    Cardinality({<<t, i>> \in Threads \X (1..MaxThreadHandles) :
                    /\ i \in DOMAIN threads[t].hs
                    /\ threads[t].hs[i].node = n})
      + Cardinality({m \in DOMAIN nodes :
                        reclaimed[m] = 0 /\ nodes[m].tail = n})

\* No thread is about to read a reclaimed node, nothing a thread's handle
\* reaches is reclaimed, no node is reclaimed twice, and once every thread
\* is idle exactly the nodes without a reference are reclaimed.
ThreadsSafe ==
    /\ \A t \in Threads :
           /\ threads[t].pc = "walk" => reclaimed[threads[t].cur] = 0
           /\ threads[t].pc = "acquire" =>
                  reclaimed[threads[t].cur.node] = 0
           /\ threads[t].pc \in {"reclaim", "release"} =>
                  reclaimed[threads[t].cur] = 0
           /\ \A i \in DOMAIN threads[t].hs :
                  \A n \in Reach(nodes, threads[t].hs[i].node) :
                      reclaimed[n] = 0
    /\ \A n \in DOMAIN nodes : reclaimed[n] <= 1
    /\ (\A t \in Threads : threads[t].pc = "idle") =>
           \A n \in DOMAIN nodes :
               /\ reclaimed[n] = 0 <=> ThreadReferrers(n) > 0
               /\ reclaimed[n] = 0 => rc[n] = ThreadReferrers(n)

\* No step changes the head or the tail of an existing node.
NodesKept ==
    /\ Len(nodes') >= Len(nodes)
    /\ \A n \in DOMAIN nodes : nodes'[n] = nodes[n]

\* C12: with threads that each own their handles to shared chains, under
\* every interleaving of handle copies, handle destructions, tail(),
\* prepend and traversals, whose use-count increments and decrements are
\* atomic, no thread reads a reclaimed node, no node's head or tail
\* changes, and each node is reclaimed exactly once.
ThreadsShareSafely == []ThreadsSafe /\ [][NodesKept]_vars

\* C12 witness: one thread is inside a traversal, at a Cons node, while
\* another thread is destroying a node.
ThreadsShareSafelyWitness ==
    \E t \in Threads, u \in Threads :
        /\ t # u
        /\ threads[t].pc = "walk"
        /\ IsCons(nodes, threads[t].cur)
        /\ threads[u].pc = "release"
        /\ \E n \in DOMAIN nodes : reclaimed[n] = 1

\* C12 witness of sharing: a thread destroyed its only handle to a chain
\* that the other thread is still traversing, and the chain stays alive.
ThreadKeepsChainAliveWitness ==
    \E t \in Threads, u \in Threads :
        /\ t # u
        /\ threads[t].pc = "walk"
        /\ IsCons(nodes, threads[t].cur)
        /\ threads[u].pc = "idle"
        /\ threads[u].hs = <<>>
        /\ rc[threads[t].cur] = 1

\* The number of the first element of q, counted from 1, whose value meets
\* the condition hit; Len(q) + 1 when there is none
FirstHit(q, hit(_)) ==
    CHOOSE k \in 1..(Len(q) + 1) :
        /\ k <= Len(q) => hit(elems[q[k]])
        /\ \A j \in 1..(k - 1) : ~hit(elems[q[j]])

\* C21: exists(p) and forall(p) invoke p on the elements from the head on
\* and on nothing after the first element that satisfies (violates) p;
\* exists is false and forall is true on the empty list; count(x) and
\* count(p) invoke their test on every element in order, size() times.
QueriesShortCircuit ==
    LET es == ElemsOf(nodes, last.recv)
        vs == ValuesOf(nodes, elems, last.recv)
    IN  /\ Returned("exists") =>
               LET k == FirstHit(es, LAMBDA v : P(last.arg, v))
               IN  /\ last.val.v <=> k <= Len(es)
                   /\ last.val.calls = SubSeq(es, 1, Min(k, Len(es)))
                   /\ size(last.recv) = 0 => ~last.val.v
        /\ Returned("forall") =>
               LET k == FirstHit(es, LAMBDA v : ~P(last.arg, v))
               IN  /\ last.val.v <=> k > Len(es)
                   /\ last.val.calls = SubSeq(es, 1, Min(k, Len(es)))
                   /\ size(last.recv) = 0 => last.val.v
        /\ Returned("count") =>
               /\ last.val.calls = es
               /\ Len(last.val.calls) = size(last.recv)
               /\ last.val.v = Occurrences(vs, last.arg)
        /\ Returned("countIf") =>
               /\ last.val.calls = es
               /\ Len(last.val.calls) = size(last.recv)
               /\ last.val.v
                      = Cardinality({i \in 1..Len(vs) : P(last.arg, vs[i])})

\* C21 witness: exists(p) answered at the second of three elements.
QueriesShortCircuitWitness ==
    /\ Returned("exists")
    /\ last.recv.size = 3
    /\ last.val.v
    /\ Len(last.val.calls) = 2

\* C21 witness for forall: it answered false at the first of three elements.
ForallStopsWitness ==
    /\ Returned("forall")
    /\ last.recv.size = 3
    /\ ~last.val.v
    /\ Len(last.val.calls) = 1

\* C21 witness for count: count(p) tested three elements and counted one.
CountTestsAllWitness ==
    /\ Returned("countIf")
    /\ Len(last.val.calls) = 3
    /\ last.val.v = 1

\* C22: map(f) invokes f once on every element, from the head to the tail,
\* and returns a list of size() elements whose i-th element is f applied to
\* the receiver's i-th element.
MapAppliesOncePerElement ==
    Returned("map") =>
        LET vs == ValuesOf(nodes, elems, last.recv)
        IN  /\ last.val = ElemsOf(nodes, last.recv)
            /\ Len(last.val) = size(last.recv)
            /\ size(last.res) = size(last.recv)
            /\ ValuesOf(nodes, elems, last.res)
                   = [i \in 1..Len(vs) |-> last.arg[vs[i]]]

\* C22 witness: map(f) ran on three elements with an f that changes a value.
MapAppliesOncePerElementWitness ==
    /\ Returned("map")
    /\ last.recv.size = 3
    /\ Len(last.val) = 3
    /\ ValuesOf(nodes, elems, last.res) # ValuesOf(nodes, elems, last.recv)

\* Some live handle references the chain that starts at node n.
ChainHeld(n) ==
    \E i \in Owning : n \in Reach(nodes, handles[i].node)

\* C23: a cursor owns no node.  While a live handle references the chain
\* the cursor was obtained from, the cursor is at a live node of that chain,
\* as many tail pointers from the root as it was advanced, and it equals
\* end() exactly after size() advances.  The use counts count handles and
\* nodes only, so a node no handle or live node references is reclaimed
\* although a cursor points at it.
CursorOwnsNothing ==
    /\ \A k \in DOMAIN cursors :
           LET c == cursors[k]
               e == end(Heap, endNil)
           IN  ~c.wild /\ ChainHeld(c.root) =>
                   /\ c.steps <= c.size
                   /\ c.it.node = NthNode(nodes, c.root, c.steps)
                   /\ \A j \in 0..c.steps :
                          reclaimed[NthNode(nodes, c.root, j)] = 0
                   /\ iterEquals(e.h, c.it, e.it) <=> c.steps = c.size
    /\ \A n \in DOMAIN nodes :
           /\ reclaimed[n] = 0 <=> Referrers(n) > 0
           /\ reclaimed[n] = 0 => rc[n] = Referrers(n)

\* C23 witness: the last handle of a chain was destroyed while a cursor
\* that had advanced once pointed into it; the node it points at is
\* reclaimed.
CursorOwnsNothingWitness ==
    /\ last.op = "destroy"
    /\ \E k \in DOMAIN cursors :
           /\ cursors[k].steps = 1
           /\ ~cursors[k].wild
           /\ IsCons(nodes, cursors[k].it.node)
           /\ reclaimed[cursors[k].it.node] = 1

\* C23 witness of a full traversal: a cursor reached the end of a list of
\* two elements that a handle still holds.
CursorReachesEndWitness ==
    \E k \in DOMAIN cursors :
        /\ cursors[k].steps = 2
        /\ cursors[k].size = 2
        /\ ~cursors[k].wild
        /\ ChainHeld(cursors[k].root)
        /\ IsNil(nodes, cursors[k].it.node)

====
